---- MODULE Spec2Model ----
(***************************************************************************)
(* Request objects of the auth0-management crate: UserUpdate               *)
(* (src/users/user_update.rs) and UserLogsGet (src/users/user_logs_get.rs).*)
(* The state is the request object the caller holds (a UserUpdate or a     *)
(* UserLogsGet), the call description its build last handed to the HTTP    *)
(* factory, and history variables recording what the caller did.           *)
(***************************************************************************)
EXTENDS Integers, Sequences, FiniteSets, TLC

\* Number of caller operations explored after construction.
MaxOps == 3

\* ------------------------------------------------------------------------
\* Input domains
\* ------------------------------------------------------------------------
Ids == {"U123", "U456"}
Strs == {"a", "b"}
Clients == {"tenantA", "tenantB"}
\* Caller-supplied metadata payloads (types A and U): one-level JSON objects.
Metas == {("k1" :> 1), ("k2" :> 2), ("k1" :> 3 @@ "k2" :> 4)}
PageNums == {0, 100}
SortFields == {"date", "type"}
Orderings == {"Ascending", "Descending"}
Users == {[user_id |-> i] : i \in Ids}

\* ------------------------------------------------------------------------
\* Option<T>
\* ------------------------------------------------------------------------
None == <<>>
Some(v) == <<v>>
Option_is_none(o) == Len(o) = 0

\* ------------------------------------------------------------------------
\* JSON values produced by serde_json
\* ------------------------------------------------------------------------
JNull == [t |-> "null"]
JBool(b) == [t |-> "bool", v |-> b]
JStr(s) == [t |-> "string", v |-> s]
JObj(m) == [t |-> "object", v |-> m]

\* ------------------------------------------------------------------------
\* UserUpdate: fields
\* ------------------------------------------------------------------------
BoolFields == {"blocked", "email_verified", "phone_verified",
               "verify_email", "verify_phone_number"}
StrFields == {"email", "phone_number", "given_name", "family_name", "name",
              "nickname", "picture", "password", "connection", "client_id"}
MetaFields == {"app_metadata", "user_metadata"}
OptFields == BoolFields \cup StrFields \cup MetaFields

UserUpdate_new(client, id) ==
  [client |-> client,
   user_id |-> id,
   blocked |-> None,
   email |-> None,
   email_verified |-> None,
   phone_number |-> None,
   phone_verified |-> None,
   given_name |-> None,
   family_name |-> None,
   name |-> None,
   nickname |-> None,
   picture |-> None,
   verify_email |-> None,
   verify_phone_number |-> None,
   password |-> None,
   connection |-> None,
   client_id |-> None,
   app_metadata |-> None,
   user_metadata |-> None]

UserUpdate_user_id(self, id) == [self EXCEPT !.user_id = id]
UserUpdate_blocked(self, v) == [self EXCEPT !.blocked = Some(v)]
UserUpdate_email(self, v) == [self EXCEPT !.email = Some(v)]
UserUpdate_email_verified(self, v) == [self EXCEPT !.email_verified = Some(v)]
UserUpdate_phone_number(self, v) == [self EXCEPT !.phone_number = Some(v)]
\* Faulty variant: writes the neighbouring field email_verified.
UserUpdate_phone_verified_wrong_field(self, v) ==
  [self EXCEPT !.email_verified = Some(v)]
UserUpdate_phone_verified(self, v) == [self EXCEPT !.phone_verified = Some(v)]
UserUpdate_given_name(self, v) == [self EXCEPT !.given_name = Some(v)]
UserUpdate_family_name(self, v) == [self EXCEPT !.family_name = Some(v)]
UserUpdate_name(self, v) == [self EXCEPT !.name = Some(v)]
UserUpdate_nickname(self, v) == [self EXCEPT !.nickname = Some(v)]
UserUpdate_picture(self, v) == [self EXCEPT !.picture = Some(v)]
\* Faulty variant: also resets the email_verified it overrides.
UserUpdate_verify_email_clears(self, v) ==
  [self EXCEPT !.verify_email = Some(v), !.email_verified = None]
UserUpdate_verify_email(self, v) == [self EXCEPT !.verify_email = Some(v)]
UserUpdate_verify_phone_number(self, v) ==
  [self EXCEPT !.verify_phone_number = Some(v)]
UserUpdate_password(self, v) == [self EXCEPT !.password = Some(v)]
UserUpdate_connection(self, v) == [self EXCEPT !.connection = Some(v)]
\* Faulty variant: stores the client id in user_id.
UserUpdate_client_id_as_user_id(self, v) == [self EXCEPT !.user_id = v]
UserUpdate_client_id(self, v) == [self EXCEPT !.client_id = Some(v)]
\* Faulty variant: merges the new fragment over the one already stored.
UserUpdate_app_metadata_merge(self, v) ==
  [self EXCEPT !.app_metadata =
     IF Option_is_none(@) THEN Some(v) ELSE Some(v @@ @[1])]
UserUpdate_app_metadata(self, v) == [self EXCEPT !.app_metadata = Some(v)]
UserUpdate_user_metadata(self, v) == [self EXCEPT !.user_metadata = Some(v)]

UserUpdate_as_ref(self) == self.client

\* ------------------------------------------------------------------------
\* #[derive(Serialize)] for UserUpdate
\* ------------------------------------------------------------------------
StructFields == {"client", "user_id"} \cup OptFields
\* #[serde(skip_serializing)]
SkipSerializing == {"client", "user_id"}
\* Faulty variant: the attribute is missing on `picture`.
SkipIfNone_forgot_picture == OptFields \ {"picture"}
\* #[serde(skip_serializing_if = "Option::is_none")]
SkipIfNone == OptFields

FieldJson(self, f) ==
  IF f \in OptFields
    THEN IF Option_is_none(self[f]) THEN JNull
         ELSE IF f \in BoolFields THEN JBool(self[f][1])
         ELSE IF f \in StrFields THEN JStr(self[f][1])
         ELSE JObj(self[f][1])
    ELSE JStr(self[f])

UserUpdate_serialize(self) ==
  [f \in {g \in StructFields :
            /\ g \notin SkipSerializing
            /\ ~(g \in SkipIfNone /\ Option_is_none(self[g]))}
     |-> FieldJson(self, f)]

\* ------------------------------------------------------------------------
\* Page and Sort (crate::Page, crate::Sort)
\* ------------------------------------------------------------------------
Page_default == [page |-> None, per_page |-> None, include_totals |-> None]
Page_page(p, n) == [p EXCEPT !.page = Some(n)]
Page_per_page(p, n) == [p EXCEPT !.per_page = Some(n)]
Page_include_totals(p, b) == [p EXCEPT !.include_totals = Some(b)]

BoolToken(b) == IF b THEN "true" ELSE "false"

Page_serialize(p) ==
  (IF Option_is_none(p.page) THEN <<>>
     ELSE << <<"page", ToString(p.page[1])>> >>)
  \o (IF Option_is_none(p.per_page) THEN <<>>
     ELSE << <<"per_page", ToString(p.per_page[1])>> >>)
  \o (IF Option_is_none(p.include_totals) THEN <<>>
     ELSE << <<"include_totals", BoolToken(p.include_totals[1])>> >>)

Sort_default == <<>>
Sort_sort(s, field, order) == <<[field |-> field, order |-> order]>>
Sort_is_emtpy(s) == Len(s) = 0
Sort_serialize(s) ==
  IF Sort_is_emtpy(s) THEN ""
  ELSE s[1].field \o ":" \o (IF s[1].order = "Ascending" THEN "1" ELSE "-1")

\* ------------------------------------------------------------------------
\* UserLogsGet
\* ------------------------------------------------------------------------
UserLogsGet_new(id) ==
  [id |-> id, page |-> Page_default, sort |-> Sort_default]

UserLogsGet_from(user) == UserLogsGet_new(user.user_id)

\* AsMut<Page> / AsMut<Sort>: the field the mutable borrow points at.
AsMut_Page == "page"
AsMut_Sort == "sort"

\* Faulty variant: sort serialized even when empty.
UserLogsGet_serialize_sort_always(self) ==
  Page_serialize(self.page) \o << <<"sort", Sort_serialize(self.sort)>> >>
\* Faulty variant: page not flattened.
UserLogsGet_serialize_nested_page(self) ==
  << <<"page", Page_serialize(self.page)>> >>
  \o (IF Sort_is_emtpy(self.sort) THEN <<>>
      ELSE << <<"sort", Sort_serialize(self.sort)>> >>)
\* #[derive(Serialize)]: id skipped, page flattened, sort skipped when empty.
UserLogsGet_serialize(self) ==
  Page_serialize(self.page)
  \o (IF Sort_is_emtpy(self.sort) THEN <<>>
      ELSE << <<"sort", Sort_serialize(self.sort)>> >>)

\* ------------------------------------------------------------------------
\* The factory and the RequestBuilder it returns
\* ------------------------------------------------------------------------
Factory(method, path) ==
  [method |-> method, path |-> path, query |-> <<>>, body |-> None]
RequestBuilder_query(rb, pairs) == [rb EXCEPT !.query = @ \o pairs]
RequestBuilder_json(rb, obj) == [rb EXCEPT !.body = Some(obj)]

\* Faulty variant: the serialized request attached as a JSON body.
UserLogsGet_build_json(self) ==
  RequestBuilder_json(
    Factory("GET", "api/v2/users/" \o self.id \o "/logs"),
    UserLogsGet_serialize(self))
UserLogsGet_build(self) ==
  RequestBuilder_query(
    Factory("GET", "api/v2/users/" \o self.id \o "/logs"),
    UserLogsGet_serialize(self))

UserUpdate_build(self) ==
  RequestBuilder_json(
    Factory("DELETE", "api/v2/users/" \o self.user_id),
    UserUpdate_serialize(self))

\* build takes &self: the request as it is after build returns.
\* Faulty variant: build moves the metadata out of the request.
UserUpdate_build_self_take(self) == [self EXCEPT !.app_metadata = None]
UserUpdate_build_self(self) == self
UserLogsGet_build_self(self) == self

\* ------------------------------------------------------------------------
\* State
\* ------------------------------------------------------------------------
VARIABLES
  req,    \* the request object: a UserUpdate or a UserLogsGet
  last,   \* Option: the call description the last build produced
  ret,    \* Option: the &Auth0 last returned by as_ref
  op,     \* kind of the last operation: new, set, as_ref or build
  builds, \* number of builds since the last setter call
  ctor,   \* history: the arguments given to the constructor
  given,  \* history: the last argument given to each setter
  nops    \* number of operations performed

vars == <<req, last, ret, op, builds, ctor, given, nops>>

Setters == {"user_id"} \cup OptFields
PageKeys == {"page", "per_page", "include_totals"}

\* The Rust type of the request object.
IsUserUpdate(r) == "user_id" \in DOMAIN r
IsUserLogsGet(r) == "id" \in DOMAIN r

Init ==
  /\ \/ \E c \in Clients, i \in Ids :
          /\ req = UserUpdate_new(c, i)
          /\ ctor = [client |-> c, id |-> i]
          /\ given = [f \in Setters |-> None]
     \/ \E i \in Ids :
          /\ \/ req = UserLogsGet_new(i)
             \/ \E u \in Users : u.user_id = i /\ req = UserLogsGet_from(u)
          /\ ctor = [id |-> i]
          /\ given = [k \in PageKeys \cup {"sort"} |-> None]
  /\ last = None
  /\ ret = None
  /\ op = "new"
  /\ builds = 0
  /\ nops = 0

\* A setter call: `name`(v) leaves the request as `new`.
Setter(name, v, new) ==
  /\ nops < MaxOps
  /\ req' = new
  /\ given' = [given EXCEPT ![name] = Some(v)]
  /\ op' = "set"
  /\ builds' = 0
  /\ nops' = nops + 1
  /\ UNCHANGED <<last, ret, ctor>>

Call_user_id ==
  /\ IsUserUpdate(req)
  /\ \E v \in Ids : Setter("user_id", v, UserUpdate_user_id(req, v))
Call_blocked ==
  /\ IsUserUpdate(req)
  /\ \E v \in BOOLEAN : Setter("blocked", v, UserUpdate_blocked(req, v))
Call_email ==
  /\ IsUserUpdate(req)
  /\ \E v \in Strs : Setter("email", v, UserUpdate_email(req, v))
Call_email_verified ==
  /\ IsUserUpdate(req)
  /\ \E v \in BOOLEAN :
       Setter("email_verified", v, UserUpdate_email_verified(req, v))
Call_phone_number ==
  /\ IsUserUpdate(req)
  /\ \E v \in Strs : Setter("phone_number", v, UserUpdate_phone_number(req, v))
Call_phone_verified ==
  /\ IsUserUpdate(req)
  /\ \E v \in BOOLEAN :
       Setter("phone_verified", v, UserUpdate_phone_verified(req, v))
Call_given_name ==
  /\ IsUserUpdate(req)
  /\ \E v \in Strs : Setter("given_name", v, UserUpdate_given_name(req, v))
Call_family_name ==
  /\ IsUserUpdate(req)
  /\ \E v \in Strs : Setter("family_name", v, UserUpdate_family_name(req, v))
Call_name ==
  /\ IsUserUpdate(req)
  /\ \E v \in Strs : Setter("name", v, UserUpdate_name(req, v))
Call_nickname ==
  /\ IsUserUpdate(req)
  /\ \E v \in Strs : Setter("nickname", v, UserUpdate_nickname(req, v))
Call_picture ==
  /\ IsUserUpdate(req)
  /\ \E v \in Strs : Setter("picture", v, UserUpdate_picture(req, v))
Call_verify_email ==
  /\ IsUserUpdate(req)
  /\ \E v \in BOOLEAN : Setter("verify_email", v, UserUpdate_verify_email(req, v))
Call_verify_phone_number ==
  /\ IsUserUpdate(req)
  /\ \E v \in BOOLEAN :
       Setter("verify_phone_number", v, UserUpdate_verify_phone_number(req, v))
Call_password ==
  /\ IsUserUpdate(req)
  /\ \E v \in Strs : Setter("password", v, UserUpdate_password(req, v))
Call_connection ==
  /\ IsUserUpdate(req)
  /\ \E v \in Strs : Setter("connection", v, UserUpdate_connection(req, v))
Call_client_id ==
  /\ IsUserUpdate(req)
  /\ \E v \in Strs : Setter("client_id", v, UserUpdate_client_id(req, v))
Call_app_metadata ==
  /\ IsUserUpdate(req)
  /\ \E v \in Metas : Setter("app_metadata", v, UserUpdate_app_metadata(req, v))
Call_user_metadata ==
  /\ IsUserUpdate(req)
  /\ \E v \in Metas : Setter("user_metadata", v, UserUpdate_user_metadata(req, v))

Call_as_ref ==
  /\ IsUserUpdate(req)
  /\ nops < MaxOps
  /\ ret' = Some(UserUpdate_as_ref(req))
  /\ op' = "as_ref"
  /\ nops' = nops + 1
  /\ UNCHANGED <<req, last, builds, ctor, given>>

Build_UserUpdate ==
  /\ IsUserUpdate(req)
  /\ nops < MaxOps
  /\ last' = Some(UserUpdate_build(req))
  /\ req' = UserUpdate_build_self(req)
  /\ op' = "build"
  /\ builds' = builds + 1
  /\ nops' = nops + 1
  /\ UNCHANGED <<ret, ctor, given>>

\* Pageable calls, through AsMut<Page>.
Call_page ==
  /\ IsUserLogsGet(req)
  /\ \E n \in PageNums :
       Setter("page", n,
              [req EXCEPT ![AsMut_Page] = Page_page(req[AsMut_Page], n)])
Call_per_page ==
  /\ IsUserLogsGet(req)
  /\ \E n \in PageNums :
       Setter("per_page", n,
              [req EXCEPT ![AsMut_Page] = Page_per_page(req[AsMut_Page], n)])
Call_include_totals ==
  /\ IsUserLogsGet(req)
  /\ \E b \in BOOLEAN :
       Setter("include_totals", b,
              [req EXCEPT ![AsMut_Page] = Page_include_totals(req[AsMut_Page], b)])

\* Sortable::sort, through AsMut<Sort>.
Call_sort ==
  /\ IsUserLogsGet(req)
  /\ \E f \in SortFields, o \in Orderings :
       Setter("sort", <<f, o>>,
              [req EXCEPT ![AsMut_Sort] = Sort_sort(req[AsMut_Sort], f, o)])

Build_UserLogsGet ==
  /\ IsUserLogsGet(req)
  /\ nops < MaxOps
  /\ last' = Some(UserLogsGet_build(req))
  /\ req' = UserLogsGet_build_self(req)
  /\ op' = "build"
  /\ builds' = builds + 1
  /\ nops' = nops + 1
  /\ UNCHANGED <<ret, ctor, given>>

Next ==
  \/ Call_user_id
  \/ Call_blocked
  \/ Call_email
  \/ Call_email_verified
  \/ Call_phone_number
  \/ Call_phone_verified
  \/ Call_given_name
  \/ Call_family_name
  \/ Call_name
  \/ Call_nickname
  \/ Call_picture
  \/ Call_verify_email
  \/ Call_verify_phone_number
  \/ Call_password
  \/ Call_connection
  \/ Call_client_id
  \/ Call_app_metadata
  \/ Call_user_metadata
  \/ Call_as_ref
  \/ Build_UserUpdate
  \/ Call_page
  \/ Call_per_page
  \/ Call_include_totals
  \/ Call_sort
  \/ Build_UserLogsGet

Spec == Init /\ [][Next]_vars

\* ------------------------------------------------------------------------
\* Properties
\* ------------------------------------------------------------------------
QueryKeys(q) == {q[i][1] : i \in 1..Len(q)}
KeyCount(q, k) == Cardinality({i \in 1..Len(q) : q[i][1] = k})
Called == {f \in DOMAIN given : ~Option_is_none(given[f])}
\* The state right after a build, no setter having run since.
JustBuilt == ~Option_is_none(last) /\ builds > 0

\* C1: the JSON body attached by UserUpdate::build has exactly the keys of the
\* optional fields whose setter was called, never user_id or client, and no
\* null value; with only blocked(true) called it is {"blocked": true}.
C1_BodyHasExactlySetFields ==
  (IsUserUpdate(req) /\ JustBuilt) =>
    /\ ~Option_is_none(last[1].body)
    /\ LET body == last[1].body[1] IN
         /\ DOMAIN body = Called \ {"user_id"}
         /\ DOMAIN body \subseteq OptFields
         /\ "user_id" \notin DOMAIN body
         /\ "client" \notin DOMAIN body
         /\ \A k \in DOMAIN body : body[k] # JNull
         /\ (Called = {"blocked"} /\ given["blocked"] = Some(TRUE))
              => body = [blocked |-> JBool(TRUE)]

C1_Witness ==
  /\ IsUserUpdate(req)
  /\ JustBuilt
  /\ Called = {"blocked", "email"}
  /\ given["blocked"] = Some(TRUE)
  /\ last[1].body[1] = [blocked |-> JBool(TRUE), email |-> JStr("a")]

\* C2: UserUpdate::build calls the factory with an update-style verb (PATCH or
\* PUT) and the path api/v2/users/{user_id}, never with GET or DELETE.
C2_UpdateVerb ==
  (IsUserUpdate(req) /\ JustBuilt) =>
    /\ last[1].method \in {"PATCH", "PUT"}
    /\ last[1].method \notin {"GET", "DELETE"}
    /\ last[1].path = "api/v2/users/" \o req.user_id

\* C3: UserLogsGet::build calls the factory with GET and the path
\* api/v2/users/I/logs, attaches the pagination/sort fields as query
\* parameters only (never the id) and attaches no body; per_page=100 with
\* sort("date", Ascending) gives the query per_page=100&sort=date:1.
C3_LogsCall ==
  (IsUserLogsGet(req) /\ JustBuilt) =>
    LET call == last[1] IN
      /\ call.method = "GET"
      /\ call.path = "api/v2/users/" \o ctor.id \o "/logs"
      /\ Option_is_none(call.body)
      /\ QueryKeys(call.query) = Called
      /\ "id" \notin QueryKeys(call.query)
      /\ \A i \in 1..Len(call.query) : call.query[i][2] # ctor.id
      /\ ( /\ Called = {"per_page", "sort"}
           /\ given["per_page"] = Some(100)
           /\ given["sort"] = Some(<<"date", "Ascending">>) )
           => call.query = << <<"per_page", "100">>, <<"sort", "date:1">> >>

C3_Witness ==
  /\ IsUserLogsGet(req)
  /\ JustBuilt
  /\ ctor.id = "U123"
  /\ last[1].path = "api/v2/users/U123/logs"
  /\ last[1].query = << <<"per_page", "100">>, <<"sort", "date:1">> >>

\* C4: the serialized query of a UserLogsGet has no sort key while sort was
\* never called, and exactly one sort key, carrying the field and direction
\* of the last call, once it was.
C4_SortKey ==
  IsUserLogsGet(req) =>
    LET q == UserLogsGet_build(req).query IN
      IF Option_is_none(given["sort"])
        THEN KeyCount(q, "sort") = 0
        ELSE /\ KeyCount(q, "sort") = 1
             /\ \E i \in 1..Len(q) :
                  /\ q[i][1] = "sort"
                  /\ q[i][2] = given["sort"][1][1] \o ":" \o
                       (IF given["sort"][1][2] = "Ascending" THEN "1" ELSE "-1")

C4_Witness ==
  /\ IsUserLogsGet(req)
  /\ given["sort"] = Some(<<"date", "Descending">>)
  /\ UserLogsGet_build(req).query = << <<"sort", "date:-1">> >>

\* C5: with only per_page set on the embedded Page, the serialized query has
\* per_page as a flat top-level key holding the number, and neither page nor
\* include_totals.
C5_PerPageFlat ==
  ( /\ IsUserLogsGet(req)
    /\ ~Option_is_none(given["per_page"])
    /\ Option_is_none(given["page"])
    /\ Option_is_none(given["include_totals"]) ) =>
    LET q == UserLogsGet_build(req).query IN
      /\ KeyCount(q, "per_page") = 1
      /\ "page" \notin QueryKeys(q)
      /\ "include_totals" \notin QueryKeys(q)
      /\ \E i \in 1..Len(q) :
           q[i] = <<"per_page", ToString(given["per_page"][1])>>

C5_Witness ==
  /\ IsUserLogsGet(req)
  /\ Called = {"per_page"}
  /\ UserLogsGet_build(req).query = << <<"per_page", "100">> >>

\* The body UserUpdate::build attaches for request r.
Body(r) == UserUpdate_build(r).body[1]
\* The id a UserUpdate was last given: by user_id(..), else by new.
CurrentId ==
  IF Option_is_none(given["user_id"]) THEN ctor.id ELSE given["user_id"][1]

\* C6: build is read-only on the request, for UserLogsGet and UserUpdate: a
\* build step leaves every field unchanged, and a build that follows a build
\* with no setter call in between yields the same call description.
C6_BuildReadOnly ==
  [][ op' = "build" =>
        /\ req' = req
        /\ (~Option_is_none(last) /\ builds > 0) => last' = last ]_vars

C6_Witness ==
  /\ IsUserUpdate(req)
  /\ builds = 2
  /\ op = "build"
  /\ ~Option_is_none(req.app_metadata)
  /\ "app_metadata" \in DOMAIN last[1].body[1]

\* C7: the id in the built path changes only through its setter: for
\* UserUpdate it is the argument of the most recent user_id call, or the id
\* given to new; for UserLogsGet it is the id given to new (or the user_id
\* of the User given to from), whatever other mutators ran.
C7_PathId ==
  /\ IsUserUpdate(req) =>
       /\ req.user_id = CurrentId
       /\ JustBuilt => last[1].path = "api/v2/users/" \o CurrentId
  /\ IsUserLogsGet(req) =>
       /\ req.id = ctor.id
       /\ JustBuilt => last[1].path = "api/v2/users/" \o ctor.id \o "/logs"

C7_Witness ==
  /\ IsUserUpdate(req)
  /\ JustBuilt
  /\ ctor.id = "U123"
  /\ given["user_id"] = Some("U456")
  /\ ~Option_is_none(given["client_id"])
  /\ last[1].path = "api/v2/users/U456"

\* C8: no local merge of metadata: the body carries under app_metadata
\* (user_metadata) exactly the value of the last call, not combined with
\* earlier values, and setting one metadata field never adds or changes the
\* other.
C8_NoMetadataMerge ==
  IsUserUpdate(req) =>
    \A m \in MetaFields :
      IF Option_is_none(given[m])
        THEN m \notin DOMAIN Body(req)
        ELSE /\ m \in DOMAIN Body(req)
             /\ Body(req)[m] = JObj(given[m][1])

C8_Witness ==
  /\ IsUserUpdate(req)
  /\ nops = 2
  /\ Called = {"app_metadata"}
  /\ Body(req) = [app_metadata |-> JObj("k2" :> 2)]

\* C9: every UserUpdate setter writes exactly the field it is named after,
\* with the value given, and leaves every other field and the client
\* reference unchanged; repeated calls leave the last value.
C9_SetterWritesOneField ==
  [][ IsUserUpdate(req) =>
        /\ req'.client = req.client
        /\ req'.user_id = (IF Option_is_none(given'["user_id"])
                             THEN req.user_id ELSE given'["user_id"][1])
        /\ \A f \in OptFields :
             /\ given'[f] = given[f] => req'[f] = req[f]
             /\ ~Option_is_none(given'[f]) => req'[f] = given'[f] ]_vars

C9_Witness ==
  /\ IsUserUpdate(req)
  /\ nops = 3
  /\ Called = {"phone_verified", "email"}
  /\ req.email = Some("b")
  /\ req.phone_verified = Some(FALSE)

\* C10: a freshly constructed UserUpdate has all 17 optional fields unset (its
\* body is the empty JSON object), and no public operation (setter, as_ref,
\* build) returns a set field to the unset state.
C10_SetFieldsOnlyGrow ==
  /\ IsUserUpdate(req) =>
       /\ Cardinality(OptFields) = 17
       /\ DOMAIN Body(req) = {}
  /\ [][ IsUserUpdate(req) => DOMAIN Body(req) \subseteq DOMAIN Body(req') ]_vars

C10_Witness ==
  /\ IsUserUpdate(req)
  /\ op = "as_ref"
  /\ DOMAIN Body(req) = {"email_verified", "verify_email"}

====
